---- MODULE Spec2Model ----
(***************************************************************************)
(* Day 2 of advent-2023: bags of coloured dice (dice.rs), the parser of    *)
(* the game records (input.rs) and the part-two aggregation (part2.rs).    *)
(*                                                                         *)
(* A Bag / BagBuilder is its `dice` map: a function from a subset of Color *)
(* to counts.  Text is a sequence of one-character strings.                *)
(***************************************************************************)
EXTENDS Integers, Sequences, FiniteSets, TLC

\* Largest count of a die in the enumerated bags.
MaxCount == 1
\* Largest number of builder operations on one BagBuilder.
MaxOps == 3
\* Largest number of draws in an enumerated game.
MaxDraws == 2
\* Largest number of games in an enumerated list of games.
MaxGames == 2
\* Largest number of words in an enumerated die token or title.
MaxParts == 3
\* Largest number of die tokens in an enumerated draw.
MaxDice == 2
\* Largest number of draws in an enumerated body.
MaxSets == 2
\* Largest number of ':'-separated segments in an enumerated line.
MaxSegments == 3
\* Largest number of lines in an enumerated document.
MaxLines == 3

VARIABLES
    unit,       \* what a behaviour exercises: "bag", "game", "games" or a parse function
    builder,    \* BagBuilder.dice of the builder in use
    log,        \* history: the operations applied to `builder` since new()
    bag,        \* the Bag returned by the last build() (Bag::default() at first)
    games,      \* a Vec<NumberedGame>, as parse_input returns it
    text,       \* a &str handed to the parser
    call        \* the last call of a function: its arguments and its result

vars == <<unit, builder, log, bag, games, text, call>>

\* enum Color
Color == {"Red", "Green", "Blue"}

\* type Count = u64, within the enumerated range
Count == 0..MaxCount

\* HashMap::new(): the map with no entry
EmptyDice == [c \in {} |-> 0]

\* Every Bag whose counts are within Count
Bags == UNION {[D -> Count] : D \in SUBSET Color}

\* The orders in which a HashMap with key set S may be iterated
Orders(S) == {o \in [1..Cardinality(S) -> S] : \A c \in S : \E i \in DOMAIN o : o[i] = c}

\* One iteration order, for the uses whose result cannot depend on it
KeyOrder(S) == CHOOSE o \in Orders(S) : TRUE

NoCall == [op |-> "none"]

\* The sequences over S of length at most n, and those that are not empty
SeqsUpTo(S, n) == UNION {[1..k -> S] : k \in 0..n}
SeqsFromOneTo(S, n) == UNION {[1..k -> S] : k \in 1..n}

\* The pieces with the separator between them
RECURSIVE Join(_, _)
Join(pieces, sep) ==
    IF pieces = <<>> THEN <<>>
    ELSE IF Len(pieces) = 1 THEN pieces[1]
    ELSE pieces[1] \o sep \o Join(Tail(pieces), sep)

----------------------------------------------------------------------------
\* Bag::can_contain, iterating other.dice in the given order

\* Faulty variant: a bag holding exactly the needed count is refused
RECURSIVE CanContainInStrict(_, _, _)
CanContainInStrict(self, other, order) ==
    IF order = <<>> THEN TRUE
    ELSE LET color == Head(order)
             needed == other[color]
         IN  IF color \notin DOMAIN self THEN FALSE
             ELSE IF needed >= self[color] THEN FALSE
             ELSE CanContainInStrict(self, other, Tail(order))

RECURSIVE CanContainIn(_, _, _)
CanContainIn(self, other, order) ==
    IF order = <<>> THEN TRUE
    ELSE LET color == Head(order)
             needed == other[color]
         IN  IF color \notin DOMAIN self THEN FALSE
             ELSE IF needed > self[color] THEN FALSE
             ELSE CanContainIn(self, other, Tail(order))

CanContain(self, other) == CanContainIn(self, other, KeyOrder(DOMAIN other))

----------------------------------------------------------------------------
\* BagBuilder

\* Faulty variant: the map is replaced by the one entry
WithDiceAlone(dice, color, count) == [c \in {color} |-> count]

\* Faulty variant: an entry already there keeps the larger count
WithDiceMax(dice, color, count) ==
    [c \in DOMAIN dice \cup {color} |->
        IF c # color THEN dice[c]
        ELSE IF c \in DOMAIN dice /\ dice[c] > count THEN dice[c] ELSE count]

\* BagBuilder::with_dice: HashMap::insert
WithDice(dice, color, count) ==
    [c \in DOMAIN dice \cup {color} |-> IF c = color THEN count ELSE dice[c]]

\* BagBuilder::with_bag, iterating other.dice in the given order
RECURSIVE WithBagIn(_, _, _)
WithBagIn(dice, other, order) ==
    IF order = <<>> THEN dice
    ELSE WithBagIn(WithDice(dice, Head(order), other[Head(order)]), other, Tail(order))

WithBag(dice, other) == WithBagIn(dice, other, KeyOrder(DOMAIN other))

\* BagBuilder::build: a clone of the map
Build(dice) == dice

----------------------------------------------------------------------------
----------------------------------------------------------------------------
\* Results: Ok(value) and Err(error)

Ok(v) == [ok |-> TRUE, value |-> v]
Err(e) == [ok |-> FALSE, error |-> e]

\* enum Error
Error == {"MissingParts", "TooManyParts", "BadlyFormattedTitle",
          "BadlyFormattedDie", "UnknownColor"}

----------------------------------------------------------------------------
\* The str methods the parser uses, on sequences of characters

\* char::is_whitespace, for the characters of the enumerated texts
WhiteSpace == {" ", "\t", "\n", "\r"}

Digit == {"0", "1", "2", "3", "4", "5", "6", "7", "8", "9"}

DigitValue(c) ==
    CASE c = "0" -> 0 [] c = "1" -> 1 [] c = "2" -> 2 [] c = "3" -> 3 [] c = "4" -> 4
      [] c = "5" -> 5 [] c = "6" -> 6 [] c = "7" -> 7 [] c = "8" -> 8 [] c = "9" -> 9

RECURSIVE TrimStart(_)
TrimStart(s) ==
    IF s # <<>> /\ Head(s) \in WhiteSpace THEN TrimStart(Tail(s)) ELSE s

RECURSIVE TrimEnd(_)
TrimEnd(s) ==
    IF s # <<>> /\ s[Len(s)] \in WhiteSpace THEN TrimEnd(SubSeq(s, 1, Len(s) - 1)) ELSE s

\* str::trim
Trim(s) == TrimEnd(TrimStart(s))

\* str::split(char): the pieces between the separators, empty pieces included
RECURSIVE Split(_, _)
Split(s, sep) ==
    IF \A i \in DOMAIN s : s[i] # sep THEN <<s>>
    ELSE LET i == CHOOSE j \in DOMAIN s : s[j] = sep /\ \A k \in 1..(j - 1) : s[k] # sep
         IN  <<SubSeq(s, 1, i - 1)>> \o Split(SubSeq(s, i + 1, Len(s)), sep)

\* str::split_whitespace: the non-empty pieces between runs of whitespace
RECURSIVE SplitWhitespace(_)
SplitWhitespace(s) ==
    LET t == TrimStart(s)
    IN  IF t = <<>> THEN <<>>
        ELSE IF \A i \in DOMAIN t : t[i] \notin WhiteSpace THEN <<t>>
        ELSE LET i == CHOOSE j \in DOMAIN t :
                          t[j] \in WhiteSpace /\ \A k \in 1..(j - 1) : t[k] \notin WhiteSpace
             IN  <<SubSeq(t, 1, i - 1)>> \o SplitWhitespace(SubSeq(t, i + 1, Len(t)))

StripCarriageReturn(s) ==
    IF s # <<>> /\ s[Len(s)] = "\r" THEN SubSeq(s, 1, Len(s) - 1) ELSE s

\* str::lines: split at "\n", a "\r" before it dropped; no last line after a final "\n"
Lines(s) ==
    LET pieces == Split(s, "\n")
        kept == IF pieces[Len(pieces)] = <<>>
                THEN SubSeq(pieces, 1, Len(pieces) - 1) ELSE pieces
    IN  [i \in DOMAIN kept |-> StripCarriageReturn(kept[i])]

\* str::starts_with
StartsWith(s, prefix) ==
    Len(s) >= Len(prefix) /\ SubSeq(s, 1, Len(prefix)) = prefix

\* char::to_lowercase, for the letters of the enumerated texts
LowerChar(c) ==
    CASE c = "A" -> "a" [] c = "B" -> "b" [] c = "C" -> "c" [] c = "D" -> "d"
      [] c = "E" -> "e" [] c = "F" -> "f" [] c = "G" -> "g" [] c = "H" -> "h"
      [] c = "I" -> "i" [] c = "J" -> "j" [] c = "K" -> "k" [] c = "L" -> "l"
      [] c = "M" -> "m" [] c = "N" -> "n" [] c = "O" -> "o" [] c = "P" -> "p"
      [] c = "Q" -> "q" [] c = "R" -> "r" [] c = "S" -> "s" [] c = "T" -> "t"
      [] c = "U" -> "u" [] c = "V" -> "v" [] c = "W" -> "w" [] c = "X" -> "x"
      [] c = "Y" -> "y" [] c = "Z" -> "z" [] OTHER -> c

\* str::to_lowercase
ToLowercase(s) == [i \in DOMAIN s |-> LowerChar(s[i])]

\* u64::MAX, as its decimal digits
U64MaxDigits ==
    <<"1", "8", "4", "4", "6", "7", "4", "4", "0", "7",
      "3", "7", "0", "9", "5", "5", "1", "6", "1", "5">>

RECURSIVE StripZeros(_)
StripZeros(s) == IF s # <<>> /\ Head(s) = "0" THEN StripZeros(Tail(s)) ELSE s

\* Whether the number the digits write is over u64::MAX
OverflowsU64(digits) ==
    LET d == StripZeros(digits)
    IN  \/ Len(d) > Len(U64MaxDigits)
        \/ /\ Len(d) = Len(U64MaxDigits)
           /\ \E i \in DOMAIN d :
                 /\ DigitValue(d[i]) > DigitValue(U64MaxDigits[i])
                 /\ \A k \in 1..(i - 1) : d[k] = U64MaxDigits[k]

RECURSIVE DigitsValue(_)
DigitsValue(digits) ==
    IF digits = <<>> THEN 0
    ELSE 10 * DigitsValue(SubSeq(digits, 1, Len(digits) - 1)) + DigitValue(digits[Len(digits)])

\* str::parse::<u64>: an optional "+", then one or more digits, at most u64::MAX
ParseU64(s) ==
    LET digits == IF s # <<>> /\ Head(s) = "+" THEN Tail(s) ELSE s
    IN  IF digits = <<>> THEN Err("ParseIntError")
        ELSE IF \E i \in DOMAIN digits : digits[i] \notin Digit THEN Err("ParseIntError")
        ELSE IF OverflowsU64(digits) THEN Err("ParseIntError")
        ELSE Ok(DigitsValue(digits))

----------------------------------------------------------------------------
\* Color::try_from_str
ColorTryFromStr(raw) ==
    LET name == Trim(ToLowercase(raw))
    IN  CASE name = <<"r", "e", "d">> -> Ok("Red")
          [] name = <<"g", "r", "e", "e", "n">> -> Ok("Green")
          [] name = <<"b", "l", "u", "e">> -> Ok("Blue")
          [] OTHER -> Err("()")

\* Game::new
GameNew(sets) == [sets |-> sets]

\* Faulty variant: the colour is checked before the count
ParseDieColourFirst(raw) ==
    LET parts == SplitWhitespace(raw)
    IN  IF Len(parts) # 2 THEN Err("BadlyFormattedDie")
        ELSE LET color == ColorTryFromStr(parts[2])
             IN  IF ~color.ok THEN Err("UnknownColor")
                 ELSE LET count == ParseU64(parts[1])
                      IN  IF ~count.ok THEN Err("BadlyFormattedDie")
                          ELSE Ok(Build(WithDice(EmptyDice, color.value, count.value)))

\* Faulty variant: the parts are split at each single space, as in parse_title
ParseDieSingleSpace(raw) ==
    LET parts == Split(raw, " ")
    IN  IF Len(parts) # 2 THEN Err("BadlyFormattedDie")
        ELSE LET count == ParseU64(parts[1])
             IN  IF ~count.ok THEN Err("BadlyFormattedDie")
                 ELSE LET color == ColorTryFromStr(parts[2])
                      IN  IF ~color.ok THEN Err("UnknownColor")
                          ELSE Ok(Build(WithDice(EmptyDice, color.value, count.value)))

\* parse_die
ParseDie(raw) ==
    LET parts == SplitWhitespace(raw)
    IN  IF Len(parts) < 1 THEN Err("BadlyFormattedDie")
        ELSE IF Len(parts) < 2 THEN Err("BadlyFormattedDie")
        ELSE IF Len(parts) > 2 THEN Err("BadlyFormattedDie")
        ELSE LET count == ParseU64(parts[1])
             IN  IF ~count.ok THEN Err("BadlyFormattedDie")
                 ELSE LET color == ColorTryFromStr(parts[2])
                      IN  IF ~color.ok THEN Err("UnknownColor")
                          ELSE Ok(Build(WithDice(EmptyDice, color.value, count.value)))

\* The loop of parse_set over the dice left, `dice` being the builder so far
RECURSIVE ParseSetLoop(_, _)
ParseSetLoop(dice, left) ==
    IF left = <<>> THEN Ok(Build(dice))
    ELSE LET die == ParseDie(Trim(Head(left)))
         IN  IF ~die.ok THEN die
             ELSE ParseSetLoop(WithBag(dice, die.value), Tail(left))

\* parse_set
ParseSet(raw) == ParseSetLoop(EmptyDice, Split(raw, ","))

\* The loop of parse_game over the sets left, `sets` being the vector so far
RECURSIVE ParseGameLoop(_, _)
ParseGameLoop(sets, left) ==
    IF left = <<>> THEN Ok(GameNew(sets))
    ELSE LET set == ParseSet(Trim(Head(left)))
         IN  IF ~set.ok THEN set
             ELSE ParseGameLoop(Append(sets, set.value), Tail(left))

\* parse_game
ParseGame(raw) == ParseGameLoop(<<>>, Split(Trim(raw), ";"))

\* parse_title
ParseTitle(raw) ==
    LET title == Trim(raw)
    IN  IF ~StartsWith(title, <<"G", "a", "m", "e", " ">>) THEN Err("BadlyFormattedTitle")
        ELSE LET parts == Split(title, " ")
             IN  IF Len(parts) # 2 THEN Err("BadlyFormattedTitle")
                 ELSE LET id == ParseU64(parts[2])
                      IN  IF ~id.ok THEN Err("BadlyFormattedTitle") ELSE Ok(id.value)

\* Faulty variant: the body is parsed before the title
ParseLineBodyFirst(line) ==
    LET parts == Split(Trim(line), ":")
    IN  IF Len(parts) < 2 THEN Err("MissingParts")
        ELSE IF Len(parts) > 2 THEN Err("TooManyParts")
        ELSE LET game == ParseGame(parts[2])
             IN  IF ~game.ok THEN game
                 ELSE LET id == ParseTitle(parts[1])
                      IN  IF ~id.ok THEN id
                          ELSE Ok([id |-> id.value, game |-> game.value])

\* parse_line
ParseLine(line) ==
    LET parts == Split(Trim(line), ":")
    IN  IF Len(parts) < 1 THEN Err("MissingParts")
        ELSE IF Len(parts) < 2 THEN Err("MissingParts")
        ELSE IF Len(parts) > 2 THEN Err("TooManyParts")
        ELSE LET id == ParseTitle(parts[1])
             IN  IF ~id.ok THEN id
                 ELSE LET game == ParseGame(parts[2])
                      IN  IF ~game.ok THEN game
                          ELSE Ok([id |-> id.value, game |-> game.value])

\* The lines parse_input parses: trimmed, the empty ones filtered out
NonEmptyLines(input) ==
    LET trimmed == [i \in DOMAIN Lines(input) |-> Trim(Lines(input)[i])]
    IN  SelectSeq(trimmed, LAMBDA line : line # <<>>)

\* Faulty variant: every line is parsed and the last error is returned
RECURSIVE ParseInputLoopLastError(_, _)
ParseInputLoopLastError(parsed, left) ==
    IF left = <<>> THEN Ok(parsed)
    ELSE LET game == ParseLine(Head(left))
             rest == ParseInputLoopLastError(
                         IF game.ok THEN Append(parsed, game.value) ELSE parsed, Tail(left))
         IN  IF ~rest.ok THEN rest
             ELSE IF ~game.ok THEN game
             ELSE rest

\* The loop of parse_input over the lines left, `parsed` being the vector so far
RECURSIVE ParseInputLoop(_, _)
ParseInputLoop(parsed, left) ==
    IF left = <<>> THEN Ok(parsed)
    ELSE LET game == ParseLine(Head(left))
         IN  IF ~game.ok THEN game
             ELSE ParseInputLoop(Append(parsed, game.value), Tail(left))

\* parse_input
ParseInput(input) == ParseInputLoop(<<>>, NonEmptyLines(input))

----------------------------------------------------------------------------
\* Faulty variant: only the first set is tried
FitsInFirst(candidate, left) ==
    IF left = <<>> THEN TRUE ELSE CanContain(candidate, Head(left))

\* Faulty variant: the first set that fits decides
RECURSIVE FitsInAny(_, _)
FitsInAny(candidate, left) ==
    IF left = <<>> THEN TRUE
    ELSE IF CanContain(candidate, Head(left)) THEN TRUE
    ELSE FitsInAny(candidate, Tail(left))

\* Game::fits_in: the loop over the sets left
RECURSIVE FitsInLoop(_, _)
FitsInLoop(candidate, left) ==
    IF left = <<>> THEN TRUE
    ELSE IF ~CanContain(candidate, Head(left)) THEN FALSE
    ELSE FitsInLoop(candidate, Tail(left))

\* Game::fits_in
FitsIn(game, candidate) == FitsInLoop(candidate, game.sets)

\* NumberedGame::is_possible_for
IsPossibleFor(numbered, candidate) == FitsIn(numbered.game, candidate)

Max(S) == CHOOSE m \in S : \A n \in S : n <= m

\* Game::get_requirements (minimal_requirements): per colour drawn, the largest count
GameGetRequirements(game) ==
    LET drawn == UNION {DOMAIN game.sets[i] : i \in DOMAIN game.sets}
    IN  [c \in drawn |->
            Max({game.sets[i][c] : i \in {j \in DOMAIN game.sets : c \in DOMAIN game.sets[j]}})]

\* NumberedGame::get_requirements
GetRequirements(numbered) == GameGetRequirements(numbered.game)

\* Bag::get_power (power): the product of the counts, over the entries in the given order
RECURSIVE GetPowerIn(_, _)
GetPowerIn(dice, order) ==
    IF order = <<>> THEN 1 ELSE dice[Head(order)] * GetPowerIn(dice, Tail(order))

GetPower(dice) == GetPowerIn(dice, KeyOrder(DOMAIN dice))

\* get_minimum_requirements: the loop over the games left
RECURSIVE GetMinimumRequirementsLoop(_, _)
GetMinimumRequirementsLoop(dice, left) ==
    IF left = <<>> THEN Build(dice)
    ELSE GetMinimumRequirementsLoop(WithBag(dice, GetRequirements(Head(left))), Tail(left))

\* get_minimum_requirements
GetMinimumRequirements(list) == GetMinimumRequirementsLoop(EmptyDice, list)

\* Faulty variant: powers.iter().product()
RECURSIVE CalculateProduct(_)
CalculateProduct(powers) ==
    IF powers = <<>> THEN 1 ELSE Head(powers) * CalculateProduct(Tail(powers))

\* calculate_result: powers.iter().sum()
RECURSIVE CalculateResult(_)
CalculateResult(powers) ==
    IF powers = <<>> THEN 0 ELSE Head(powers) + CalculateResult(Tail(powers))

\* The powers of part two: each game's requirements, then their power
Powers(list) == [i \in DOMAIN list |-> GetPower(GetRequirements(list[i]))]

\* Minimum-power-sum mode
MinimumPowerSum(list) == CalculateResult(Powers(list))

\* Feasibility-sum mode: the identifiers of the games possible for the bag, summed
RECURSIVE FeasibilitySum(_, _)
FeasibilitySum(list, candidate) ==
    IF list = <<>> THEN 0
    ELSE (IF IsPossibleFor(Head(list), candidate) THEN Head(list).id ELSE 0)
         + FeasibilitySum(Tail(list), candidate)

----------------------------------------------------------------------------
\* The example of the puzzle

\* The input of can_reproduce_the_example
ExampleInput ==
    <<"\n", " ", " ", " ", " ", " ", " ", " ", " ", "G", "a", "m", "e", " ", "1", ":", " ",
      "3", " ", "b", "l", "u", "e", ",", " ", "4", " ", "r", "e", "d", ";", " ", "1", " ",
      "r", "e", "d", ",", " ", "2", " ", "g", "r", "e", "e", "n", ",", " ", "6", " ", "b",
      "l", "u", "e", ";", " ", "2", " ", "g", "r", "e", "e", "n", "\n", " ", " ", " ", " ",
      " ", " ", " ", " ", "G", "a", "m", "e", " ", "2", ":", " ", "1", " ", "b", "l", "u",
      "e", ",", " ", "2", " ", "g", "r", "e", "e", "n", ";", " ", "3", " ", "g", "r", "e",
      "e", "n", ",", " ", "4", " ", "b", "l", "u", "e", ",", " ", "1", " ", "r", "e", "d",
      ";", " ", "1", " ", "g", "r", "e", "e", "n", ",", " ", "1", " ", "b", "l", "u", "e",
      "\n", " ", " ", " ", " ", " ", " ", " ", " ", "G", "a", "m", "e", " ", "3", ":", " ",
      "8", " ", "g", "r", "e", "e", "n", ",", " ", "6", " ", "b", "l", "u", "e", ",", " ",
      "2", "0", " ", "r", "e", "d", ";", " ", "5", " ", "b", "l", "u", "e", ",", " ", "4",
      " ", "r", "e", "d", ",", " ", "1", "3", " ", "g", "r", "e", "e", "n", ";", " ", "5",
      " ", "g", "r", "e", "e", "n", ",", " ", "1", " ", "r", "e", "d", "\n", " ", " ", " ",
      " ", " ", " ", " ", " ", "G", "a", "m", "e", " ", "4", ":", " ", "1", " ", "g", "r",
      "e", "e", "n", ",", " ", "3", " ", "r", "e", "d", ",", " ", "6", " ", "b", "l", "u",
      "e", ";", " ", "3", " ", "g", "r", "e", "e", "n", ",", " ", "6", " ", "r", "e", "d",
      ";", " ", "3", " ", "g", "r", "e", "e", "n", ",", " ", "1", "5", " ", "b", "l", "u",
      "e", ",", " ", "1", "4", " ", "r", "e", "d", "\n", " ", " ", " ", " ", " ", " ", " ",
      " ", "G", "a", "m", "e", " ", "5", ":", " ", "6", " ", "r", "e", "d", ",", " ", "1",
      " ", "b", "l", "u", "e", ",", " ", "3", " ", "g", "r", "e", "e", "n", ";", " ", "2",
      " ", "b", "l", "u", "e", ",", " ", "1", " ", "r", "e", "d", ",", " ", "2", " ", "g",
      "r", "e", "e", "n", "\n", " ", " ", " ", " ">>

\* The games of the example
ExampleGames ==
    << [id |-> 1, game |-> GameNew(<< [Blue |-> 3, Red |-> 4],
                                      [Red |-> 1, Green |-> 2, Blue |-> 6],
                                      [Green |-> 2] >>)],
       [id |-> 2, game |-> GameNew(<< [Blue |-> 1, Green |-> 2],
                                      [Green |-> 3, Blue |-> 4, Red |-> 1],
                                      [Green |-> 1, Blue |-> 1] >>)],
       [id |-> 3, game |-> GameNew(<< [Green |-> 8, Blue |-> 6, Red |-> 20],
                                      [Blue |-> 5, Red |-> 4, Green |-> 13],
                                      [Green |-> 5, Red |-> 1] >>)],
       [id |-> 4, game |-> GameNew(<< [Green |-> 1, Red |-> 3, Blue |-> 6],
                                      [Green |-> 3, Red |-> 6],
                                      [Green |-> 3, Blue |-> 15, Red |-> 14] >>)],
       [id |-> 5, game |-> GameNew(<< [Red |-> 6, Blue |-> 1, Green |-> 3],
                                      [Blue |-> 2, Red |-> 1, Green |-> 2] >>)] >>

\* The bag of 12 red, 13 green and 14 blue dice
ReferenceBag == WithDice(WithDice(WithDice(EmptyDice, "Red", 12), "Green", 13), "Blue", 14)

----------------------------------------------------------------------------
InitBag ==
    /\ unit = "bag"
    /\ builder = EmptyDice
    /\ log = <<>>
    /\ bag = EmptyDice
    /\ games = <<>>
    /\ text = <<>>
    /\ call = NoCall

\* BagBuilder::new(): a fresh builder replaces the one in use
New ==
    /\ unit = "bag"
    /\ log # <<>>
    /\ builder' = EmptyDice
    /\ log' = <<>>
    /\ call' = NoCall
    /\ UNCHANGED <<unit, bag, games, text>>

\* builder.with_dice(color, count)
DoWithDice ==
    /\ unit = "bag"
    /\ Len(log) < MaxOps
    /\ \E color \in Color, count \in Count :
          /\ builder' = WithDice(builder, color, count)
          /\ log' = Append(log, [op |-> "with_dice", color |-> color, count |-> count])
    /\ call' = NoCall
    /\ UNCHANGED <<unit, bag, games, text>>

\* builder.with_bag(&bag), with the bag built last
DoWithBag ==
    /\ unit = "bag"
    /\ Len(log) < MaxOps
    /\ \E order \in Orders(DOMAIN bag) :
          builder' = WithBagIn(builder, bag, order)
    /\ log' = Append(log, [op |-> "with_bag", other |-> bag])
    /\ call' = NoCall
    /\ UNCHANGED <<unit, bag, games, text>>

\* builder.build()
DoBuild ==
    /\ unit = "bag"
    /\ bag' = Build(builder)
    /\ call' = NoCall
    /\ UNCHANGED <<unit, builder, log, games, text>>

\* bag.can_contain(&other), other being any bag
DoCanContain ==
    /\ unit = "bag"
    /\ log = <<>>
    /\ call = NoCall
    /\ \E other \in Bags : \E order \in Orders(DOMAIN other) :
          call' = [op |-> "can_contain", self |-> bag, other |-> other,
                   result |-> CanContainIn(bag, other, order)]
    /\ UNCHANGED <<unit, builder, log, bag, games, text>>

NextBag == New \/ DoWithDice \/ DoWithBag \/ DoBuild \/ DoCanContain

BagSpec == InitBag /\ [][NextBag]_vars

----------------------------------------------------------------------------
\* The game units: the queries of one game ("game"), the aggregations of a list ("games")

\* The colours of the draws of the enumerated games (the example games use all three)
DrawColor == {"Red", "Green"}

DrawBags == UNION {[D -> Count] : D \in SUBSET DrawColor}

\* One game of up to MaxDraws draws, numbered 1
SingleGames == {<<[id |-> 1, game |-> GameNew(sets)]>> : sets \in SeqsUpTo(DrawBags, MaxDraws)}

\* The example games and a game without draws, numbered 6
GamePool == {ExampleGames[i] : i \in DOMAIN ExampleGames} \cup {[id |-> 6, game |-> GameNew(<<>>)]}

GameLists == SeqsUpTo(GamePool, MaxGames) \cup {ExampleGames}

\* The bags a game is tried against
CandidateBags == Bags \cup {ReferenceBag}

InitGame ==
    /\ \/ unit = "game" /\ games \in SingleGames
       \/ unit = "games" /\ games \in GameLists
    /\ builder = EmptyDice
    /\ log = <<>>
    /\ bag = EmptyDice
    /\ text = <<>>
    /\ call = NoCall

\* games[i].game.fits_in(&candidate)
DoFitsIn ==
    /\ unit \in {"game", "games"}
    /\ call = NoCall
    /\ \E i \in DOMAIN games, candidate \in CandidateBags :
          call' = [op |-> "fits_in", game |-> games[i].game, bag |-> candidate,
                   result |-> FitsIn(games[i].game, candidate)]
    /\ UNCHANGED <<unit, builder, log, bag, games, text>>

\* games[i].get_requirements()
DoGetRequirements ==
    /\ unit \in {"game", "games"}
    /\ call = NoCall
    /\ \E i \in DOMAIN games :
          call' = [op |-> "get_requirements", game |-> games[i].game,
                   result |-> GetRequirements(games[i])]
    /\ UNCHANGED <<unit, builder, log, bag, games, text>>

\* games[i].get_requirements().get_power()
DoGetPower ==
    /\ unit \in {"game", "games"}
    /\ call = NoCall
    /\ \E i \in DOMAIN games : \E order \in Orders(DOMAIN GetRequirements(games[i])) :
          call' = [op |-> "get_power", self |-> GetRequirements(games[i]),
                   result |-> GetPowerIn(GetRequirements(games[i]), order)]
    /\ UNCHANGED <<unit, builder, log, bag, games, text>>

\* Part one: the feasibility sum of the games for a bag
DoFeasibilitySum ==
    /\ unit = "games"
    /\ call = NoCall
    /\ \E candidate \in CandidateBags :
          call' = [op |-> "feasibility_sum", bag |-> candidate,
                   result |-> FeasibilitySum(games, candidate)]
    /\ UNCHANGED <<unit, builder, log, bag, games, text>>

\* Part two: the powers of the games and their sum
DoMinimumPowerSum ==
    /\ unit = "games"
    /\ call = NoCall
    /\ call' = [op |-> "minimum_power_sum", powers |-> Powers(games),
                result |-> MinimumPowerSum(games)]
    /\ UNCHANGED <<unit, builder, log, bag, games, text>>

\* get_minimum_requirements(games)
DoGetMinimumRequirements ==
    /\ unit = "games"
    /\ call = NoCall
    /\ call' = [op |-> "get_minimum_requirements", result |-> GetMinimumRequirements(games)]
    /\ UNCHANGED <<unit, builder, log, bag, games, text>>

NextGame ==
    \/ DoFitsIn
    \/ DoGetRequirements
    \/ DoGetPower
    \/ DoFeasibilitySum
    \/ DoMinimumPowerSum
    \/ DoGetMinimumRequirements

GameSpec == InitGame /\ [][NextGame]_vars

----------------------------------------------------------------------------
\* The parse units: one parse function applied to one text

\* The words of the die tokens:
\*   "0", "12", "+4", "two", "red", "Green", "BLUE", "yellow", "18446744073709551616"
DieWords ==
    { <<"0">>,
      <<"1", "2">>,
      <<"+", "4">>,
      <<"t", "w", "o">>,
      <<"r", "e", "d">>,
      <<"G", "r", "e", "e", "n">>,
      <<"B", "L", "U", "E">>,
      <<"y", "e", "l", "l", "o", "w">>,
      <<"1", "8", "4", "4", "6", "7", "4", "4", "0", "7", "3", "7", "0", "9", "5", "5", "1", "6", "1", "6">> }

\* Die tokens: up to MaxParts words, with one space, with more whitespace, padded
DieTexts ==
    UNION {{Join(ws, <<" ">>), Join(ws, <<"\t", " ">>), <<" ">> \o Join(ws, <<" ">>) \o <<"\t">>} :
             ws \in SeqsUpTo(DieWords, MaxParts)}

\* The die tokens of the draws:
\*   "3 blue", "4 red", "1 RED", "0 green", "two red", "2 yellow", ""
DiePool ==
    { <<"3", " ", "b", "l", "u", "e">>,
      <<"4", " ", "r", "e", "d">>,
      <<"1", " ", "R", "E", "D">>,
      <<"0", " ", "g", "r", "e", "e", "n">>,
      <<"t", "w", "o", " ", "r", "e", "d">>,
      <<"2", " ", "y", "e", "l", "l", "o", "w">>,
      <<>> }

\* Draws: one to MaxDice die tokens between commas
SetTexts ==
    UNION {{Join(ts, <<",">>), Join(ts, <<",", " ">>), Join(ts, <<" ", ",", " ", " ">>)} :
             ts \in SeqsFromOneTo(DiePool, MaxDice)}

\* The draws of the bodies:
\*   "3 blue, 4 red", "1 red,2 green ", "2 green", "", "4 red,", "two red", "2 yellow, 1 red"
SetPool ==
    { <<"3", " ", "b", "l", "u", "e", ",", " ", "4", " ", "r", "e", "d">>,
      <<"1", " ", "r", "e", "d", ",", "2", " ", "g", "r", "e", "e", "n", " ">>,
      <<"2", " ", "g", "r", "e", "e", "n">>,
      <<>>,
      <<"4", " ", "r", "e", "d", ",">>,
      <<"t", "w", "o", " ", "r", "e", "d">>,
      <<"2", " ", "y", "e", "l", "l", "o", "w", ",", " ", "1", " ", "r", "e", "d">> }

\* Bodies: one to MaxSets draws between semicolons
GameTexts ==
    UNION {{Join(ds, <<";">>), <<" ">> \o Join(ds, <<";", " ">>), Join(ds, <<" ", ";", " ", " ">>)} :
             ds \in SeqsFromOneTo(SetPool, MaxSets)}

\* The words of the titles:
\*   "Game", "1", "23", "+1", "Gamestop", "x", ""
TitleWords ==
    { <<"G", "a", "m", "e">>,
      <<"1">>,
      <<"2", "3">>,
      <<"+", "1">>,
      <<"G", "a", "m", "e", "s", "t", "o", "p">>,
      <<"x">>,
      <<>> }

\* Titles: up to MaxParts words with one space between them, and padded
TitleTexts ==
    UNION {{Join(ws, <<" ">>), <<" ">> \o Join(ws, <<" ">>) \o <<"\t">>} :
             ws \in SeqsUpTo(TitleWords, MaxParts)}

\* The segments of the lines, titles and bodies:
\*   "Game 1", "Gamestop 1", " 3 blue, 4 red; 2 green", " two red", ""
SegmentPool ==
    { <<"G", "a", "m", "e", " ", "1">>,
      <<"G", "a", "m", "e", "s", "t", "o", "p", " ", "1">>,
      <<" ", "3", " ", "b", "l", "u", "e", ",", " ", "4", " ", "r", "e", "d", ";", " ", "2", " ", "g", "r", "e", "e", "n">>,
      <<" ", "t", "w", "o", " ", "r", "e", "d">>,
      <<>> }

\* Lines: up to MaxSegments segments between colons
LineTexts == {Join(segments, <<":">>) : segments \in SeqsUpTo(SegmentPool, MaxSegments)}

\* The lines of the documents:
\*   "  Game 1: 3 blue", "Game 2: 1 red; 2 green\r", "", "   ", "Game x: 1 red", "Game 3", "Game 4: 2 yellow"
LinePool ==
    { <<" ", " ", "G", "a", "m", "e", " ", "1", ":", " ", "3", " ", "b", "l", "u", "e">>,
      <<"G", "a", "m", "e", " ", "2", ":", " ", "1", " ", "r", "e", "d", ";", " ", "2", " ", "g", "r", "e", "e", "n", "\r">>,
      <<>>,
      <<" ", " ", " ">>,
      <<"G", "a", "m", "e", " ", "x", ":", " ", "1", " ", "r", "e", "d">>,
      <<"G", "a", "m", "e", " ", "3">>,
      <<"G", "a", "m", "e", " ", "4", ":", " ", "2", " ", "y", "e", "l", "l", "o", "w">> }

\* Documents: up to MaxLines lines, with and without a last line ending; the example
DocTexts ==
    UNION {{Join(ls, <<"\n">>), Join(ls, <<"\n">>) \o <<"\n">>} : ls \in SeqsUpTo(LinePool, MaxLines)}
    \cup {ExampleInput}

InitParse ==
    /\ \/ unit = "parse_die" /\ text \in DieTexts
       \/ unit = "parse_set" /\ text \in SetTexts
       \/ unit = "parse_game" /\ text \in GameTexts
       \/ unit = "parse_title" /\ text \in TitleTexts
       \/ unit = "parse_line" /\ text \in LineTexts
       \/ unit = "parse_input" /\ text \in DocTexts
    /\ builder = EmptyDice
    /\ log = <<>>
    /\ bag = EmptyDice
    /\ games = <<>>
    /\ call = NoCall

\* parse_die(text)
DoParseDie ==
    /\ unit = "parse_die"
    /\ call = NoCall
    /\ call' = [op |-> "parse_die", result |-> ParseDie(text)]
    /\ UNCHANGED <<unit, builder, log, bag, games, text>>

\* parse_set(text)
DoParseSet ==
    /\ unit = "parse_set"
    /\ call = NoCall
    /\ call' = [op |-> "parse_set", result |-> ParseSet(text)]
    /\ UNCHANGED <<unit, builder, log, bag, games, text>>

\* parse_game(text)
DoParseGame ==
    /\ unit = "parse_game"
    /\ call = NoCall
    /\ call' = [op |-> "parse_game", result |-> ParseGame(text)]
    /\ UNCHANGED <<unit, builder, log, bag, games, text>>

\* parse_title(text)
DoParseTitle ==
    /\ unit = "parse_title"
    /\ call = NoCall
    /\ call' = [op |-> "parse_title", result |-> ParseTitle(text)]
    /\ UNCHANGED <<unit, builder, log, bag, games, text>>

\* parse_line(text)
DoParseLine ==
    /\ unit = "parse_line"
    /\ call = NoCall
    /\ call' = [op |-> "parse_line", result |-> ParseLine(text)]
    /\ UNCHANGED <<unit, builder, log, bag, games, text>>

\* parse_input(text)
DoParseInput ==
    /\ unit = "parse_input"
    /\ call = NoCall
    /\ call' = [op |-> "parse_input", result |-> ParseInput(text)]
    /\ UNCHANGED <<unit, builder, log, bag, games, text>>

NextParse ==
    \/ DoParseDie
    \/ DoParseSet
    \/ DoParseGame
    \/ DoParseTitle
    \/ DoParseLine
    \/ DoParseInput

ParseSpec == InitParse /\ [][NextParse]_vars

----------------------------------------------------------------------------
\* Every unit

Init == InitBag \/ InitGame \/ InitParse

Next == NextBag \/ NextGame \/ NextParse

Spec == Init /\ [][Next]_vars

----------------------------------------------------------------------------
\* Helpers of the properties

\* f[1] + ... + f[n]
RECURSIVE SumUpTo(_, _)
SumUpTo(f, n) == IF n = 0 THEN 0 ELSE SumUpTo(f, n - 1) + f[n]

\* The bag without the colours in S
Without(dice, S) == [c \in DOMAIN dice \ S |-> dice[c]]

\* Whether a builder operation sets colour c, and the count it sets
Sets(op, c) == IF op.op = "with_dice" THEN op.color = c ELSE c \in DOMAIN op.other
Written(op, c) == IF op.op = "with_dice" THEN op.count ELSE op.other[c]

\* The builder operations applied in order to a new builder, and built
RECURSIVE Replay(_, _)
Replay(dice, ops) ==
    IF ops = <<>> THEN Build(dice)
    ELSE Replay(IF Head(ops).op = "with_dice"
                THEN WithDice(dice, Head(ops).color, Head(ops).count)
                ELSE WithBag(dice, Head(ops).other),
                Tail(ops))

\* No colour is given two different counts by the operations
SameCountPerColour(ops) ==
    \A i, j \in DOMAIN ops : \A c \in Color :
        Sets(ops[i], c) /\ Sets(ops[j], c) => Written(ops[i], c) = Written(ops[j], c)

\* Every order of the operations builds the bag `built`
AnyOrderBuilds(ops, built) ==
    \A p \in Orders(DOMAIN ops) :
        Replay(EmptyDice, [i \in DOMAIN ops |-> ops[p[i]]]) = built

\* For each colour the bag holds what the last operation setting it wrote, and
\* nothing for a colour no operation set
LastWriteWins(built, ops) ==
    \A c \in Color :
        LET writers == {i \in DOMAIN ops : Sets(ops[i], c)}
        IN  IF writers = {} THEN c \notin DOMAIN built
            ELSE c \in DOMAIN built /\ built[c] = Written(ops[Max(writers)], c)

----------------------------------------------------------------------------
\* C1: self.can_contain(other) is true exactly when every colour of other has an
\* entry in self with at least the needed count; so an empty other is contained,
\* a bag contains itself, and the colours only self holds do not change the result.
C1_CanContainIff ==
    call.op = "can_contain" =>
        /\ call.result = (\A c \in DOMAIN call.other :
                             c \in DOMAIN call.self /\ call.self[c] >= call.other[c])
        /\ (call.other = EmptyDice => call.result)
        /\ (call.other = call.self => call.result)
        /\ \A S \in SUBSET (DOMAIN call.self \ DOMAIN call.other) :
              call.result = CanContain(Without(call.self, S), call.other)

C1_Witness ==
    /\ call.op = "can_contain"
    /\ call.result
    /\ call.other # EmptyDice
    /\ call.other # call.self
    /\ DOMAIN call.self \ DOMAIN call.other # {}

\* C2: an absent colour counts as zero: can_contain is false only when other has a
\* colour with a count over zero that self lacks, or a count over self's; so a
\* count of 0 for a colour self has no entry for is contained.
C2_AbsentIsZero ==
    call.op = "can_contain" =>
        (~call.result <=>
            \E c \in DOMAIN call.other :
                \/ c \notin DOMAIN call.self /\ call.other[c] > 0
                \/ c \in DOMAIN call.self /\ call.other[c] > call.self[c])

\* C3: get_requirements holds, for each colour drawn at least once, the largest
\* count of it over the draws and nothing for the other colours; the game fits in
\* it, and with any count lowered by one some draw no longer fits.
C3_MinimalRequirements ==
    call.op = "get_requirements" =>
        LET sets == call.game.sets
            req == call.result
        IN  /\ DOMAIN req = {c \in Color : \E i \in DOMAIN sets : c \in DOMAIN sets[i]}
            /\ \A c \in DOMAIN req :
                  /\ \E i \in DOMAIN sets : c \in DOMAIN sets[i] /\ sets[i][c] = req[c]
                  /\ \A i \in DOMAIN sets : c \in DOMAIN sets[i] => sets[i][c] <= req[c]
            /\ FitsIn(call.game, req)
            /\ \A c \in DOMAIN req :
                  req[c] > 0 =>
                      /\ ~FitsIn(call.game, [req EXCEPT ![c] = req[c] - 1])
                      /\ \E i \in DOMAIN sets :
                            ~CanContain([req EXCEPT ![c] = req[c] - 1], sets[i])

C3_Witness ==
    /\ call.op = "get_requirements"
    /\ Len(call.game.sets) >= 2
    /\ \E c \in DOMAIN call.result :
          /\ call.result[c] > 0
          /\ c \in DOMAIN call.game.sets[1]
          /\ call.game.sets[1][c] < call.result[c]
    /\ \E c \in Color : c \notin DOMAIN call.result

\* C4: fits_in is true exactly when the bag can contain every draw, so a game
\* without draws fits any bag; the feasibility sum adds the identifiers of exactly
\* the games that fit, and is 8 for the example games and the reference bag.
C4_FitsInEveryDraw ==
    /\ call.op = "fits_in" =>
          /\ call.result = (\A i \in DOMAIN call.game.sets :
                               CanContain(call.bag, call.game.sets[i]))
          /\ (call.game.sets = <<>> => call.result)
    /\ call.op = "feasibility_sum" =>
          /\ call.result =
                SumUpTo([i \in DOMAIN games |->
                            IF \A k \in DOMAIN games[i].game.sets :
                                   CanContain(call.bag, games[i].game.sets[k])
                            THEN games[i].id ELSE 0],
                        Len(games))
          /\ (games = ExampleGames /\ call.bag = ReferenceBag => call.result = 8)

C4_Witness ==
    /\ call.op = "feasibility_sum"
    /\ games = ExampleGames
    /\ call.bag = ReferenceBag
    /\ call.result = 8

\* C5: the power of a bag is the product of its counts, 1 for a bag without
\* entries; the minimum power sum is the sum of the powers of the requirements of
\* the games: 48, 12, 1560, 630, 36 and 2286 in all for the example games.
C5_PowerSum ==
    /\ call.op = "get_power" =>
          /\ call.result =
                (IF "Red" \in DOMAIN call.self THEN call.self["Red"] ELSE 1)
                * (IF "Green" \in DOMAIN call.self THEN call.self["Green"] ELSE 1)
                * (IF "Blue" \in DOMAIN call.self THEN call.self["Blue"] ELSE 1)
          /\ (call.self = EmptyDice => call.result = 1)
    /\ call.op = "minimum_power_sum" =>
          /\ Len(call.powers) = Len(games)
          /\ \A i \in DOMAIN games :
                call.powers[i] = GetPower(GetRequirements(games[i]))
          /\ call.result = SumUpTo(call.powers, Len(games))
          /\ (games = ExampleGames =>
                /\ call.powers = <<48, 12, 1560, 630, 36>>
                /\ call.result = 2286)

C5_Witness ==
    /\ call.op = "minimum_power_sum"
    /\ games = ExampleGames
    /\ call.result = 2286

\* C6 as stated: the operations of the builder applied in any order build the
\* same bag.
C6_AnyOrder ==
    unit = "bag" => AnyOrderBuilds(log, Build(builder))

\* C6 amended: the operations of the builder applied in any order build the same
\* bag, provided no colour is given two different counts.
C6_AnyOrderOfOneCountPerColour ==
    unit = "bag" /\ SameCountPerColour(log) => AnyOrderBuilds(log, Build(builder))

C6_Witness ==
    /\ unit = "bag"
    /\ Len(log) = 3
    /\ SameCountPerColour(log)
    /\ \E i, j \in DOMAIN log : log[i].op = "with_dice" /\ log[j].op = "with_bag"
    /\ Cardinality(DOMAIN builder) = 3

\* C7: the built bag holds for each colour the count of the last with_dice or
\* with_bag that set it, never a sum or a maximum, and nothing for a colour never
\* set; so the last die of a colour decides in a draw, and the last game that has
\* the colour decides in get_minimum_requirements.
C7_LastWriteWins ==
    /\ unit = "bag" => LastWriteWins(Build(builder), log)
    /\ call.op = "parse_set" /\ call.result.ok =>
          LET tokens == Split(text, ",")
          IN  LastWriteWins(call.result.value,
                            [i \in DOMAIN tokens |->
                                [op |-> "with_bag", other |-> ParseDie(Trim(tokens[i])).value]])
    /\ call.op = "get_minimum_requirements" =>
          LastWriteWins(call.result,
                        [i \in DOMAIN games |->
                            [op |-> "with_bag", other |-> GetRequirements(games[i])]])

C7_Witness ==
    /\ unit = "bag"
    /\ \E i, j \in DOMAIN log : \E c \in Color :
          /\ i < j
          /\ log[i].op = "with_dice" /\ log[i].color = c
          /\ log[j].op = "with_bag" /\ c \in DOMAIN log[j].other
          /\ log[j].other[c] < log[i].count
          /\ \A k \in DOMAIN log : k > j => ~Sets(log[k], c)
          /\ builder[c] = log[j].other[c]

\* The lines of a text that are not blank
NonBlankLines(input) == SelectSeq(Lines(input), LAMBDA line : Trim(line) # <<>>)

\* C8: parse_input skips the lines that are empty once trimmed; when every other
\* line parses it returns their games in the order of the document, one per line;
\* otherwise it returns the error of the first line that fails, whatever follows.
C8_ParseInputFailFast ==
    call.op = "parse_input" =>
        LET lines == NonBlankLines(text)
            failing == {i \in DOMAIN lines : ~ParseLine(lines[i]).ok}
        IN  /\ failing = {} =>
                  /\ call.result.ok
                  /\ Len(call.result.value) = Len(lines)
                  /\ \A i \in DOMAIN lines : ParseLine(lines[i]) = Ok(call.result.value[i])
            /\ failing # {} =>
                  /\ ~call.result.ok
                  /\ \E i \in failing :
                        /\ \A k \in failing : i <= k
                        /\ call.result = ParseLine(lines[i])
                  /\ DOMAIN call.result = {"ok", "error"}
            /\ (text = ExampleInput => call.result = Ok(ExampleGames))

C8_Witness ==
    /\ call.op = "parse_input"
    /\ ~call.result.ok
    /\ LET lines == NonBlankLines(text)
       IN  \E i, j, k \in DOMAIN lines :
              /\ i < j /\ j < k
              /\ ParseLine(lines[i]).ok
              /\ ~ParseLine(lines[j]).ok
              /\ ~ParseLine(lines[k]).ok
              /\ ParseLine(lines[j]) # ParseLine(lines[k])
              /\ call.result = ParseLine(lines[j])

\* C9: parse_line returns MissingParts for fewer than two ':'-separated segments
\* (the empty line, a line without ':') and TooManyParts for more than two,
\* whatever the segments hold; with two segments the title is checked before the
\* body, and two valid segments give the game with the identifier of the title and
\* the draws of the body in order.
C9_ParseLineSegments ==
    call.op = "parse_line" =>
        LET parts == Split(Trim(text), ":")
        IN  /\ Len(parts) < 2 => call.result = Err("MissingParts")
            /\ (text = <<>> \/ \A i \in DOMAIN text : text[i] # ":") =>
                  call.result = Err("MissingParts")
            /\ Len(parts) > 2 => call.result = Err("TooManyParts")
            /\ Len(parts) = 2 =>
                  LET id == ParseTitle(parts[1])
                      game == ParseGame(parts[2])
                      draws == Split(Trim(parts[2]), ";")
                  IN  /\ ~id.ok => call.result = Err("BadlyFormattedTitle")
                      /\ id.ok /\ ~game.ok => call.result = game
                      /\ id.ok /\ game.ok =>
                            /\ call.result.ok
                            /\ call.result.value.id = id.value
                            /\ Len(call.result.value.game.sets) = Len(draws)
                            /\ \A i \in DOMAIN draws :
                                  ParseSet(Trim(draws[i])) = Ok(call.result.value.game.sets[i])

C9_Witness ==
    /\ call.op = "parse_line"
    /\ LET parts == Split(Trim(text), ":")
       IN  /\ Len(parts) = 2
           /\ ~ParseTitle(parts[1]).ok
           /\ ~ParseGame(parts[2]).ok
           /\ ParseGame(parts[2]).error = "BadlyFormattedDie"
    /\ call.result = Err("BadlyFormattedTitle")

\* The colour names, in lower case
ColourNames == {<<"r", "e", "d">>, <<"g", "r", "e", "e", "n">>, <<"b", "l", "u", "e">>}

ColourOfName(name) ==
    CASE name = <<"r", "e", "d">> -> "Red"
      [] name = <<"g", "r", "e", "e", "n">> -> "Green"
      [] name = <<"b", "l", "u", "e">> -> "Blue"

\* The die tokens of a body, in order: its draws split at ',', trimmed
RECURSIVE TokensOf(_)
TokensOf(draws) ==
    IF draws = <<>> THEN <<>>
    ELSE LET tokens == Split(Trim(Head(draws)), ",")
         IN  [i \in DOMAIN tokens |-> Trim(tokens[i])] \o TokensOf(Tail(draws))

TitleDigits(title) ==
    IF /\ StartsWith(title, <<"G", "a", "m", "e", " ">>)
       /\ Len(title) > 5
       /\ \A i \in 6..Len(title) : title[i] \in Digit
    THEN SubSeq(title, 6, Len(title))
    ELSE <<>>

\* C11: parse_title returns the identifier exactly when the trimmed title is
\* "Game ", one single space, then digits that write a number in the range of a
\* u64; any other title (empty, another prefix, no numeral, a lone numeral, one
\* more token, two spaces, a second token that is not digits) gives
\* BadlyFormattedTitle.
C11_ParseTitleExact ==
    call.op = "parse_title" =>
        LET digits == TitleDigits(Trim(text))
            exact == digits # <<>> /\ ~OverflowsU64(digits)
        IN  /\ call.result.ok <=> exact
            /\ exact => call.result = Ok(DigitsValue(digits))
            /\ ~exact => call.result = Err("BadlyFormattedTitle")

\* The draws of a body, each the sequence of its die tokens, each the sequence of
\* its parts: what is left of the body once the whitespace is set aside
BodyTokens(body) ==
    LET draws == Split(Trim(body), ";")
    IN  [i \in DOMAIN draws |->
            LET tokens == Split(draws[i], ",")
            IN  [k \in DOMAIN tokens |-> SplitWhitespace(tokens[k])]]

\* The whitespace put around a separator, and between a count and a colour
Pads == {<<>>, <<" ">>, <<" ", "\t">>}
Gaps == {<<" ">>, <<" ", " ">>, <<"\t">>}
Styles == [gap : Gaps, comma : Pads, semi : Pads, outer : Pads]

\* The body that has the given draws, tokens and parts, written in a style
WriteBody(draws, style) ==
    LET writeToken(parts) == Join(parts, style.gap)
        writeDraw(tokens) ==
            Join([k \in DOMAIN tokens |-> writeToken(tokens[k])],
                 style.comma \o <<",">> \o style.comma)
    IN  style.outer
        \o Join([i \in DOMAIN draws |-> writeDraw(draws[i])],
                style.semi \o <<";">> \o style.semi)
        \o style.outer

\* C12: parse_game does not depend on the whitespace around the tokens and the
\* separators: every body with the draws and the die tokens of the parsed one,
\* whatever the whitespace around ';' and ',' and between a count and a colour,
\* parses to the same result, the same game or the same error.
C12_WhitespaceInsensitive ==
    call.op = "parse_game" =>
        \A style \in Styles :
            LET other == WriteBody(BodyTokens(text), style)
            IN  /\ BodyTokens(other) = BodyTokens(text)
                /\ ParseGame(other) = call.result

C12_Witness ==
    /\ call.op = "parse_game"
    /\ call.result.ok
    /\ Len(call.result.value.sets) = 2
    /\ \E i \in DOMAIN BodyTokens(text) : Len(BodyTokens(text)[i]) = 2
    /\ \A style \in Styles : WriteBody(BodyTokens(text), style) # text

====
